---- MODULE Spec2Model ----
(***************************************************************************)
(* Model of krka/guess-the-artist:                                         *)
(*   - the Authentication Session Manager (class SpotifyClient): PKCE      *)
(*     login, token refresh with retry, anonymous client-credential token, *)
(*     logout;                                                             *)
(*   - the Game Round Engine (game page): setup, ready/playing/round-done/ *)
(*     team-done/game-over phases, the one-second countdown.               *)
(* Two specifications share the variables: AuthSpec drives the Session     *)
(* Manager, Spec drives the Game Round Engine.                             *)
(***************************************************************************)
EXTENDS Integers, Sequences, FiniteSets, TLC

VARIABLES
    \* ---- Session Manager (SpotifyClient instance + localStorage + provider)
    accessToken,    \* this.accessToken: "none" | "user" | "anon"
    tokenExpiry,    \* this.tokenExpiry: 0 (null) or absolute minute
    refreshToken,   \* this.refreshToken: 0 (null) or a refresh-token id
    lsRefresh,      \* localStorage['spotify_refresh_token']: 0 or an id
    lsVerifier,     \* localStorage['spotify_code_verifier']: 0 or 1
    now,            \* Date.now(), in minutes
    provValid,      \* provider: refresh tokens it still accepts
    provIssued,     \* provider: number of refresh tokens issued so far
    provRotated,    \* provider: refresh tokens it replaced through rotation
    pc,             \* per ensureAuthenticated caller: its position
    req,            \* per caller: its token-endpoint request in flight
    retryCount,     \* per caller: refreshAccessToken's retryCount argument
    delayMs,        \* per caller: the setTimeout delay of the pending retry
    attempts,       \* history: refresh requests sent by the caller's call
    loginPc,        \* login flow: "none", or the callback's position (LoginPositions)
    userSession,    \* history: a user login succeeded and was not ended
    \* ---- Game Round Engine (game page)
    phase,          \* the visible phase element ("setup": still on the setup page)
    gameConfig,     \* gameConfig, as startGame wrote it and the game page shuffled it
    artists,        \* gameState.artists
    currentTeamIndex,   \* gameState.currentTeamIndex (0-based)
    currentPlayerIndex, \* gameState.currentPlayerIndex (0-based)
    currentArtistIndex, \* gameState.currentArtistIndex (0-based)
    scores,         \* gameState.scores: team id -> score
    playerStats,    \* gameState.playerStats: <<team id, member>> -> counters
    remainingTime,  \* gameState.remainingTime
    initialRoundDuration, \* gameState.initialRoundDuration
    timerInterval,  \* gameState.timerInterval: 0 (null) or an interval id
    activeTimers,   \* the intervals the browser has scheduled
    onclick,        \* the onclick handler of each button
    insufficient,   \* history: fetchArtists found fewer artists than needed
    roundsStarted,  \* history: startRound calls that started a countdown
    played,         \* history: the player ids startRound started a countdown for
    roundsEnded,    \* history: endRound calls
    signals,        \* history: the correct and the pass signals handled so far
    teams,          \* setup page: the teams list (let teams = [])
    dateNow,        \* Date.now() on the game page, in seconds
    roundStartTime, \* gameState.roundStartTime
    currentArtistStartTime, \* gameState.currentArtistStartTime
    guessTime,      \* handleCorrect: the time of the last guess recorded (-1: none)
    secondsRun,     \* history: the interval callbacks run so far
    \* ---- Pure functions checked on their own: an input and the result
    digest,         \* generateCodeChallenge: the bytes of the SHA-256 digest
    codeChallenge,  \* generateCodeChallenge: the characters it returns
    trimIn,         \* fetchArtists: allArtists after the popularity filter
    trimNeeded,     \* fetchArtists: artistsNeeded
    trimOut,        \* fetchArtists: allArtists after the trim
    filterIn,       \* fetchArtists: allArtists before the popularity filter
    filterFloor,    \* fetchArtists: minPopularity (-1: not run)
    filterOut       \* fetchArtists: allArtists after the popularity filter

authVars == <<accessToken, tokenExpiry, refreshToken, lsRefresh, lsVerifier, now,
              provValid, provIssued, provRotated, pc, req, retryCount, delayMs, attempts,
              loginPc, userSession>>
gameVars == <<phase, gameConfig, artists, currentTeamIndex, currentPlayerIndex,
              currentArtistIndex, scores, playerStats, remainingTime,
              initialRoundDuration, timerInterval, activeTimers, onclick,
              insufficient, roundsStarted, played, roundsEnded, signals, teams,
              dateNow, roundStartTime, currentArtistStartTime, guessTime, secondsRun>>
pureVars == <<digest, codeChallenge, trimIn, trimNeeded, trimOut,
              filterIn, filterFloor, filterOut>>
vars == <<authVars, gameVars, pureVars>>

\* ------------------------------------------------------------------ bounds
MaxRT == 2
MaxTime == 1
MaxArtists == 2
MaxDuration == 2
MaxSignals == 2
MaxPool == 7
MaxClock == 2
MaxBytes == 3
MaxNeeded == 2

\* ------------------------------------------------------- program constants
RefreshMarginMin == 5
MaxRetries == 3
BackoffBaseMs == 1000

\* The two calls initializeAuthenticatedUI leaves running side by side
Callers == {"loadPlaylists", "getCurrentUser"}
\* expires_in values the provider hands out, in minutes
Lifetimes == {6}
\* HTTP statuses of a token-endpoint answer; 0 stands for a network failure
\* (fetch rejects, no HTTP response)
Statuses == {0, 200, 400, 500}

NoReq == [kind |-> "none", rt |-> 0, stage |-> "none", status |-> 0,
          newRT |-> 0, expiresIn |-> 0, stale |-> FALSE, superseded |-> FALSE]

RECURSIVE Pow2(_)
Pow2(n) == IF n = 0 THEN 1 ELSE 2 * Pow2(n - 1)

\* ======================================================================
\* Session Manager
\* ======================================================================

\* SpotifyClient.isAuthenticated
isAuthenticated == accessToken # "none" \/ lsRefresh # 0

\* SpotifyClient.isUserAuthenticated
isUserAuthenticated == refreshToken # 0 \/ lsRefresh # 0

\* Slip: tests the in-memory field where the code reads localStorage
HasStoredRefresh_memoryOnly == refreshToken # 0

\* ensureAuthenticated: the durable refresh token read when no access token
HasStoredRefresh == lsRefresh # 0

\* Slip: the five-minute margin is forgotten
IsExpiring_noMargin == now >= tokenExpiry

\* ensureAuthenticated: Date.now() >= this.tokenExpiry - 5 * 60 * 1000
IsExpiring == now >= tokenExpiry - RefreshMarginMin

\* Slip: the lifetime is stored without the current time
ExpiryAt_noClock(expiresIn) == expiresIn

\* this.tokenExpiry = Date.now() + data.expires_in * 1000
ExpiryAt(expiresIn) == now + expiresIn

\* Slip: off by one in the retry cap
ShouldRetry_offByOne(status, retry) == status >= 500 /\ retry <= MaxRetries

\* refreshAccessToken: response.status >= 500 && retryCount < 3
ShouldRetry(status, retry) == status >= 500 /\ retry < MaxRetries

\* Slip: off by one in the server-error boundary
ClearsOnStatus_inclusive(status) == status <= 500

\* refreshAccessToken: if (response.status < 500) this.logout()
ClearsOnStatus(status) == status < 500

\* refreshAccessToken: Math.pow(2, retryCount) * 1000
BackoffDelay(retry) == Pow2(retry) * BackoffBaseMs

\* Positions of the login flow. "none": no login in progress, the page is
\* interactive. "atProvider": the browser is at the authorization page.
\* "errorPage": the provider redirected back with ?error=. "replayPage": the
\* callback URL of an earlier, completed login was opened again. "exchangeWait",
\* "replayWait": handleCallback awaits the token endpoint. The others: how
\* handleCallback ended, before the page wires its buttons.
CallbackOutcomes == {"loggedIn", "denied", "missingVerifier", "exchangeFailed"}

LoginPositions ==
    {"none", "atProvider", "errorPage", "replayPage", "exchangeWait", "replayWait"}
        \cup CallbackOutcomes

\* Slip: the stored verifier is not checked before the exchange
CallbackProceeds_noVerifierCheck(error, verifier) == ~error

\* Slip: the error parameter is not checked before the exchange
CallbackProceeds_ignoresError(error, verifier) == verifier # 0

\* handleCallback: the checks before the exchange (error parameter, stored verifier)
CallbackProceeds(error, verifier) == ~error /\ verifier # 0

\* Slip: only the success path removes the verifier
VerifierAfterExchange_keptOnFailure(ok) == IF ok THEN 0 ELSE lsVerifier

\* handleCallback: localStorage.removeItem('spotify_code_verifier'), on success
\* and in the catch block alike
VerifierAfterExchange(ok) == 0

\* The callers' state of a freshly loaded page (no call running)
IdleCallers ==
    /\ pc' = [c \in Callers |-> "idle"]
    /\ req' = [c \in Callers |-> NoReq]
    /\ retryCount' = [c \in Callers |-> 0]
    /\ delayMs' = [c \in Callers |-> 0]
    /\ attempts' = [c \in Callers |-> 0]

\* new SpotifyClient(): the in-memory fields of a fresh instance
FreshInstance ==
    /\ accessToken' = "none"
    /\ refreshToken' = 0
    /\ tokenExpiry' = 0

\* Slip: only the in-memory fields are cleared
LogoutEffect_memoryOnly ==
    /\ accessToken' = "none"
    /\ refreshToken' = 0
    /\ tokenExpiry' = 0
    /\ UNCHANGED <<lsRefresh, lsVerifier>>

\* SpotifyClient.logout: the five assignments
LogoutEffect ==
    /\ accessToken' = "none"
    /\ refreshToken' = 0
    /\ tokenExpiry' = 0
    /\ lsRefresh' = 0
    /\ lsVerifier' = 0

\* refreshAccessToken(retry) up to its fetch; memRT is this.refreshToken as the
\* call finds it. Throws without a request when no refresh token is available.
StartRefresh(c, memRT, retry) ==
    LET rt == IF memRT # 0 THEN memRT ELSE lsRefresh IN
    /\ retryCount' = [retryCount EXCEPT ![c] = retry]
    /\ delayMs' = [delayMs EXCEPT ![c] = 0]
    /\ IF rt = 0
       THEN /\ pc' = [pc EXCEPT ![c] = "failed"]
            /\ req' = [req EXCEPT ![c] = NoReq]
            /\ attempts' = attempts
       ELSE /\ pc' = [pc EXCEPT ![c] = "refreshWait"]
            /\ req' = [req EXCEPT ![c] =
                         [NoReq EXCEPT !.kind = "refresh", !.rt = rt, !.stage = "sent",
                                       !.superseded = (rt \in provRotated)]]
            /\ attempts' = [attempts EXCEPT ![c] = @ + 1]

\* getClientCredentialsToken up to its fetch
StartClientCredentials(c) ==
    /\ pc' = [pc EXCEPT ![c] = "ccWait"]
    /\ req' = [req EXCEPT ![c] = [NoReq EXCEPT !.kind = "cc", !.stage = "sent"]]
    /\ UNCHANGED <<retryCount, delayMs, attempts>>

\* ensureAuthenticated, from its entry to its first await (or its return)
EnsureAuthenticated(c) ==
    /\ loginPc = "none"
    /\ pc[c] = "idle"
    /\ IF accessToken = "none"
       THEN IF HasStoredRefresh
            THEN /\ refreshToken' = lsRefresh
                 /\ StartRefresh(c, lsRefresh, 0)
            ELSE /\ StartClientCredentials(c)
                 /\ UNCHANGED refreshToken
       ELSE IF IsExpiring
            THEN /\ IF isUserAuthenticated
                    THEN StartRefresh(c, refreshToken, 0)
                    ELSE StartClientCredentials(c)
                 /\ UNCHANGED refreshToken
            ELSE /\ pc' = [pc EXCEPT ![c] = "done"]
                 /\ UNCHANGED <<refreshToken, req, retryCount, delayMs, attempts>>
    /\ UNCHANGED <<accessToken, tokenExpiry, lsRefresh, lsVerifier, now, provValid,
                   provIssued, provRotated, loginPc, userSession, gameVars, pureVars>>

\* The token endpoint (or the network) decides the answer to a refresh request
ProviderAnswerRefresh(c) ==
    /\ req[c].kind = "refresh" /\ req[c].stage = "sent"
    /\ \E s \in Statuses, rotate \in BOOLEAN, e \in Lifetimes :
         /\ s = 200 => req[c].rt \in provValid
         /\ rotate => (s = 200 /\ provIssued < MaxRT)
         /\ s # 200 => e = CHOOSE x \in Lifetimes : TRUE
         /\ IF rotate
            THEN /\ provIssued' = provIssued + 1
                 /\ provValid' = (provValid \ {req[c].rt}) \cup {provIssued + 1}
                 /\ provRotated' = provRotated \cup {req[c].rt}
            ELSE /\ provIssued' = provIssued
                 \* a 4xx for a token still on file: the grant was revoked
                 /\ provValid' = IF s = 400 THEN provValid \ {req[c].rt} ELSE provValid
                 /\ provRotated' = provRotated
         /\ req' = [req EXCEPT ![c] =
                      [@ EXCEPT !.stage = "answered", !.status = s,
                                !.newRT = IF rotate THEN provIssued + 1 ELSE 0,
                                !.expiresIn = IF s = 200 THEN e ELSE 0]]
    /\ UNCHANGED <<accessToken, tokenExpiry, refreshToken, lsRefresh, lsVerifier, now,
                   pc, retryCount, delayMs, attempts, loginPc, userSession, gameVars, pureVars>>

\* The token endpoint (or the network) decides the answer to a client-credential request
ProviderAnswerCC(c) ==
    /\ req[c].kind = "cc" /\ req[c].stage = "sent"
    /\ \E s \in Statuses, e \in Lifetimes :
         /\ s # 200 => e = CHOOSE x \in Lifetimes : TRUE
         /\ req' = [req EXCEPT ![c] =
                      [@ EXCEPT !.stage = "answered", !.status = s,
                                !.expiresIn = IF s = 200 THEN e ELSE 0]]
    /\ UNCHANGED <<accessToken, tokenExpiry, refreshToken, lsRefresh, lsVerifier, now,
                   provValid, provIssued, provRotated, pc, retryCount, delayMs, attempts,
                   loginPc, userSession, gameVars, pureVars>>

\* Slip: a network failure is retried like a 5xx answer
RefreshNetworkError_retried(c) ==
    /\ pc[c] = "refreshWait" /\ req[c].stage = "answered" /\ req[c].status = 0
    /\ pc' = [pc EXCEPT ![c] = "backoff"]
    /\ delayMs' = [delayMs EXCEPT ![c] = BackoffDelay(retryCount[c])]
    /\ req' = [req EXCEPT ![c].stage = "handled"]
    /\ UNCHANGED <<accessToken, tokenExpiry, refreshToken, lsRefresh, lsVerifier, now,
                   provValid, provIssued, provRotated, retryCount, attempts,
                   loginPc, userSession, gameVars, pureVars>>

\* refreshAccessToken after its fetch: fetch rejected (network failure)
RefreshNetworkError(c) ==
    /\ pc[c] = "refreshWait" /\ req[c].stage = "answered" /\ req[c].status = 0
    /\ pc' = [pc EXCEPT ![c] = "failed"]
    /\ req' = [req EXCEPT ![c].stage = "handled"]
    /\ UNCHANGED <<accessToken, tokenExpiry, refreshToken, lsRefresh, lsVerifier, now,
                   provValid, provIssued, provRotated, retryCount, delayMs, attempts,
                   loginPc, userSession, gameVars, pureVars>>

\* refreshAccessToken after its fetch: !response.ok
RefreshRejected(c) ==
    /\ pc[c] = "refreshWait" /\ req[c].stage = "answered"
    /\ req[c].status \notin {0, 200}
    /\ req' = [req EXCEPT ![c].stage = "handled"]
    /\ IF ShouldRetry(req[c].status, retryCount[c])
       THEN /\ delayMs' = [delayMs EXCEPT ![c] = BackoffDelay(retryCount[c])]
            /\ pc' = [pc EXCEPT ![c] = "backoff"]
            /\ UNCHANGED <<accessToken, tokenExpiry, refreshToken, lsRefresh,
                           lsVerifier, userSession>>
       ELSE /\ pc' = [pc EXCEPT ![c] = "failed"]
            /\ delayMs' = delayMs
            /\ IF ClearsOnStatus(req[c].status)
               THEN LogoutEffect /\ userSession' = FALSE
               ELSE UNCHANGED <<accessToken, tokenExpiry, refreshToken, lsRefresh,
                                lsVerifier, userSession>>
    /\ UNCHANGED <<now, provValid, provIssued, provRotated, retryCount, attempts,
                   loginPc, gameVars, pureVars>>

\* refreshAccessToken: the retry's setTimeout fires, refreshAccessToken(retryCount + 1)
RefreshRetry(c) ==
    /\ pc[c] = "backoff"
    /\ StartRefresh(c, refreshToken, retryCount[c] + 1)
    /\ UNCHANGED <<accessToken, tokenExpiry, refreshToken, lsRefresh, lsVerifier, now,
                   provValid, provIssued, provRotated, loginPc, userSession, gameVars, pureVars>>

\* Slip: a rotated refresh token is kept in memory and not written to localStorage
RefreshSucceeded_notPersisted(c) ==
    /\ pc[c] = "refreshWait" /\ req[c].stage = "answered" /\ req[c].status = 200
    /\ accessToken' = "user"
    /\ tokenExpiry' = ExpiryAt(req[c].expiresIn)
    /\ IF req[c].newRT # 0
       THEN refreshToken' = req[c].newRT /\ lsRefresh' = lsRefresh
       ELSE UNCHANGED <<refreshToken, lsRefresh>>
    /\ pc' = [pc EXCEPT ![c] = "done"]
    /\ req' = [req EXCEPT ![c].stage = "handled"]
    /\ UNCHANGED <<lsVerifier, now, provValid, provIssued, provRotated, retryCount,
                   delayMs, attempts, loginPc, userSession, gameVars, pureVars>>

\* refreshAccessToken after its fetch: response.ok
RefreshSucceeded(c) ==
    /\ pc[c] = "refreshWait" /\ req[c].stage = "answered" /\ req[c].status = 200
    /\ accessToken' = "user"
    /\ tokenExpiry' = ExpiryAt(req[c].expiresIn)
    /\ IF req[c].newRT # 0
       THEN refreshToken' = req[c].newRT /\ lsRefresh' = req[c].newRT
       ELSE UNCHANGED <<refreshToken, lsRefresh>>
    /\ pc' = [pc EXCEPT ![c] = "done"]
    /\ req' = [req EXCEPT ![c].stage = "handled"]
    /\ UNCHANGED <<lsVerifier, now, provValid, provIssued, provRotated, retryCount,
                   delayMs, attempts, loginPc, userSession, gameVars, pureVars>>

\* getClientCredentialsToken after its fetch
ClientCredentialsResponse(c) ==
    /\ pc[c] = "ccWait" /\ req[c].stage = "answered"
    /\ req' = [req EXCEPT ![c].stage = "handled"]
    /\ IF req[c].status = 200
       THEN /\ accessToken' = "anon"
            /\ tokenExpiry' = ExpiryAt(req[c].expiresIn)
            /\ pc' = [pc EXCEPT ![c] = "done"]
       ELSE /\ pc' = [pc EXCEPT ![c] = "failed"]
            /\ UNCHANGED <<accessToken, tokenExpiry>>
    /\ UNCHANGED <<refreshToken, lsRefresh, lsVerifier, now, provValid, provIssued,
                   provRotated, retryCount, delayMs, attempts, loginPc, userSession,
                   gameVars, pureVars>>

\* The caller's await of ensureAuthenticated settles; the caller may call again
CallSettled(c) ==
    /\ pc[c] \in {"done", "failed"}
    /\ pc' = [pc EXCEPT ![c] = "idle"]
    /\ retryCount' = [retryCount EXCEPT ![c] = 0]
    /\ delayMs' = [delayMs EXCEPT ![c] = 0]
    /\ attempts' = [attempts EXCEPT ![c] = 0]
    /\ req' = [req EXCEPT ![c] = NoReq]
    /\ UNCHANGED <<accessToken, tokenExpiry, refreshToken, lsRefresh, lsVerifier, now,
                   provValid, provIssued, provRotated, loginPc, userSession,
                   gameVars, pureVars>>

\* SpotifyClient.logout (logout button, or the session-expired handler)
Logout ==
    /\ loginPc = "none"
    /\ LogoutEffect
    /\ req' = [c \in Callers |->
                 IF req[c].kind = "refresh" /\ req[c].stage \in {"sent", "answered"}
                 THEN [req[c] EXCEPT !.stale = TRUE]
                 ELSE req[c]]
    /\ userSession' = FALSE
    /\ UNCHANGED <<now, provValid, provIssued, provRotated, pc, retryCount, delayMs,
                   attempts, loginPc, gameVars, pureVars>>

\* redirectToSpotifyAuth: store the verifier, leave the page
RedirectToSpotifyAuth ==
    /\ loginPc = "none"
    /\ lsVerifier' = 1
    /\ FreshInstance
    /\ IdleCallers
    /\ loginPc' = "atProvider"
    /\ UNCHANGED <<lsRefresh, now, provValid, provIssued, provRotated, userSession,
                   gameVars, pureVars>>

\* The provider redirects back with ?error=...
CallbackDenied ==
    /\ loginPc = "atProvider"
    /\ loginPc' = "errorPage"
    /\ UNCHANGED <<accessToken, tokenExpiry, refreshToken, lsRefresh, lsVerifier, now,
                   provValid, provIssued, provRotated, pc, req, retryCount, delayMs,
                   attempts, userSession, gameVars, pureVars>>

\* The callback URL of an earlier login, whose code was exchanged, is opened
\* again: a page load with ?code=<used code>
ReplayCallbackUrl ==
    /\ loginPc = "none"
    /\ provIssued >= 1
    /\ FreshInstance
    /\ IdleCallers
    /\ loginPc' = "replayPage"
    /\ UNCHANGED <<lsRefresh, lsVerifier, now, provValid, provIssued, provRotated,
                   userSession, gameVars, pureVars>>

\* handleCallback, up to its fetch or its throw. From "atProvider" the provider
\* redirected back with ?code=<fresh code>. (With ?error= and no code= the setup
\* page does not call handleCallback at all: the same outcome as its throw.)
HandleCallback ==
    /\ loginPc \in {"atProvider", "errorPage", "replayPage"}
    /\ loginPc' = IF CallbackProceeds(loginPc = "errorPage", lsVerifier)
                  THEN IF loginPc = "replayPage" THEN "replayWait" ELSE "exchangeWait"
                  ELSE IF loginPc = "errorPage" THEN "denied" ELSE "missingVerifier"
    /\ UNCHANGED <<accessToken, tokenExpiry, refreshToken, lsRefresh, lsVerifier, now,
                   provValid, provIssued, provRotated, pc, req, retryCount, delayMs,
                   attempts, userSession, gameVars, pureVars>>

\* handleCallback after its fetch: tokens stored, or the verifier dropped and a
\* throw. The provider accepts a code once: a replayed code is never answered 200.
ExchangeResponse ==
    /\ loginPc \in {"exchangeWait", "replayWait"}
    /\ \E s \in Statuses, e \in Lifetimes :
         /\ s = 200 => (loginPc = "exchangeWait" /\ provIssued < MaxRT)
         /\ s # 200 => e = CHOOSE x \in Lifetimes : TRUE
         /\ lsVerifier' = VerifierAfterExchange(s = 200)
         /\ IF s = 200
            THEN /\ loginPc' = "loggedIn"
                 /\ provIssued' = provIssued + 1
                 /\ provValid' = provValid \cup {provIssued + 1}
                 /\ accessToken' = "user"
                 /\ refreshToken' = provIssued + 1
                 /\ tokenExpiry' = ExpiryAt(e)
                 /\ lsRefresh' = provIssued + 1
                 /\ userSession' = TRUE
            ELSE /\ loginPc' = "exchangeFailed"
                 /\ UNCHANGED <<provIssued, provValid, accessToken, refreshToken,
                                tokenExpiry, lsRefresh, userSession>>
    /\ UNCHANGED <<now, provRotated, pc, req, retryCount, delayMs, attempts, gameVars, pureVars>>

\* The setup page after handleCallback returned or threw: the UI is shown and
\* setupEventListeners wires the buttons
CallbackPageReady ==
    /\ loginPc \in CallbackOutcomes
    /\ loginPc' = "none"
    /\ UNCHANGED <<accessToken, tokenExpiry, refreshToken, lsRefresh, lsVerifier, now,
                   provValid, provIssued, provRotated, pc, req, retryCount, delayMs,
                   attempts, userSession, gameVars, pureVars>>

\* A page load without a callback (reload, or index.html -> game.html):
\* new SpotifyClient(), requests of the old page are gone
PageLoad ==
    /\ loginPc = "none"
    /\ FreshInstance
    /\ IdleCallers
    /\ UNCHANGED <<lsRefresh, lsVerifier, now, provValid, provIssued, provRotated,
                   loginPc, userSession, gameVars, pureVars>>

\* One minute passes
ClockTick ==
    /\ now < MaxTime
    /\ now' = now + 1
    /\ UNCHANGED <<accessToken, tokenExpiry, refreshToken, lsRefresh, lsVerifier,
                   provValid, provIssued, provRotated, pc, req, retryCount, delayMs,
                   attempts, loginPc, userSession, gameVars, pureVars>>

\* The session state a page starts from; storedRT is the durable refresh token
\* an earlier login left behind (0: none)
AuthInitWith(storedRT) ==
    /\ accessToken = "none"
    /\ tokenExpiry = 0
    /\ refreshToken = 0
    /\ lsRefresh = storedRT
    /\ lsVerifier = 0
    /\ now = 0
    /\ provValid = IF storedRT = 0 THEN {} ELSE {storedRT}
    /\ provIssued = storedRT
    /\ provRotated = {}
    /\ pc = [c \in Callers |-> "idle"]
    /\ req = [c \in Callers |-> NoReq]
    /\ retryCount = [c \in Callers |-> 0]
    /\ delayMs = [c \in Callers |-> 0]
    /\ attempts = [c \in Callers |-> 0]
    /\ loginPc = "none"
    /\ userSession = FALSE

\* The setup page of a browser that holds no earlier login
AuthInit == AuthInitWith(0)

\* ======================================================================
\* Game Round Engine
\* ======================================================================

GameModes == {"individual", "swap-places"}

\* Values of the popularity slider the setup page may hold
PopularityFloors == {0, 50}

Team(id, name, members, enabled) ==
    [id |-> id, name |-> name, members |-> members, enabled |-> enabled]

\* Rosters the setup page may hold when Start is pressed
TeamSetups ==
    { <<>>,
      <<Team("t1", "Team 1", <<"Alice", "Bob">>, TRUE)>>,
      <<Team("t1", "Team 1", <<"Alice", "Bob">>, TRUE), Team("t2", "Team 2", <<"Carol">>, TRUE)>>,
      <<Team("t1", "Team 1", <<"Alice", "Bob">>, FALSE), Team("t2", "Team 2", <<"Carol", "Dave">>, TRUE)>>,
      <<Team("t1", "Team 1", <<"Alice", "Bob">>, TRUE), Team("t2", "Team 2", <<"Carol", "Dave">>, TRUE)>>,
      <<Team("t1", "Team 1", <<"Alice", "Bob", "Carol">>, TRUE)>>,
      <<Team("t1", "Team 1", <<"Sam", "Sam">>, TRUE)>>,
      <<Team("t1", "Team 1", <<"Alice">>, TRUE), Team("t2", "Team 2", <<"Carol", "Dave">>, FALSE)>> }

\* The artists the sources can return: artist.popularity by id (-1: no value)
ArtistPopularity(a) ==
    CASE a = 1 -> 90
      [] a = 2 -> -1
      [] a = 3 -> 50
      [] OTHER -> 20

\* artist.popularity || 0
PopularityOrZero(a) == IF ArtistPopularity(a) = -1 THEN 0 ELSE ArtistPopularity(a)

NoConfig == [teams |-> <<>>, playerDuration |-> 0, gameMode |-> "individual",
             minPopularity |-> 0, minArtistsNeeded |-> 0]

NoHandlers == [go |-> "none", continue |-> "none", nextTeam |-> "none",
               pass |-> "none", correct |-> "none"]

EmptyMap == [x \in {} |-> 0]

NewStat == [correct |-> 0, passed |-> 0, currentStreak |-> 0, bestStreak |-> 0]

NoSignals == [correct |-> 0, pass |-> 0]

\* Slip: the best streak is never raised
BestStreakAfter_stale(streak, best) == best

\* handleCorrect: if (currentStreak > bestStreak) bestStreak = currentStreak
BestStreakAfter(streak, best) == IF streak > best THEN streak ELSE best

\* Slip: the guess extends the streak but is not counted
StatsAfterCorrect_uncounted(stats) ==
    LET streak == stats.currentStreak + 1
    IN [correct |-> stats.correct,
        passed |-> stats.passed,
        currentStreak |-> streak,
        bestStreak |-> BestStreakAfter(streak, stats.bestStreak)]

\* handleCorrect: stats.correct++; stats.currentStreak++; the best streak update
StatsAfterCorrect(stats) ==
    LET streak == stats.currentStreak + 1
    IN [correct |-> stats.correct + 1,
        passed |-> stats.passed,
        currentStreak |-> streak,
        bestStreak |-> BestStreakAfter(streak, stats.bestStreak)]

\* Slip: a new round forgets the best streak as well
StatsAtRoundStart_resetsBest(stats) ==
    [stats EXCEPT !.currentStreak = 0, !.bestStreak = 0]

\* startRound: stats.currentStreak = 0; stats.currentStreakArtists = []
StatsAtRoundStart(stats) == [stats EXCEPT !.currentStreak = 0]

\* Slip: a pass counts but the streak goes on
StatsAfterPass_keepsStreak(stats) == [stats EXCEPT !.passed = @ + 1]

\* handlePass: stats.passed++; stats.currentStreak = 0; stats.currentStreakArtists = []
StatsAfterPass(stats) == [stats EXCEPT !.passed = @ + 1, !.currentStreak = 0]

\* Slip: the same member is announced again
NextPlayerIndex_stays(idx) == idx

\* endRound: gameState.currentPlayerIndex++
NextPlayerIndex(idx) == idx + 1

\* Slip: a button of a hidden phase can still be pressed
PhaseShown_always(p) == TRUE

\* hideAllPhases, then the one phase shown: only its buttons can be pressed
PhaseShown(p) == phase = p

\* Slip: a correct guess scores nothing
ScoreAfterCorrect_unchanged(score) == score

\* handleCorrect: gameState.scores[team.id]++
ScoreAfterCorrect(score) == score + 1

RECURSIVE SumMembers(_)
SumMembers(teamList) ==
    IF teamList = <<>> THEN 0 ELSE Len(Head(teamList).members) + SumMembers(Tail(teamList))

\* Slip: both game modes get the swap-places placeholder team
ValidTeams_oneDefault(teamList, gameMode) ==
    LET IsValid(t) == t.enabled /\ Len(t.members) >= 2
        validTeams == SelectSeq(teamList, IsValid)
    IN IF Len(validTeams) = 0
       THEN <<Team("default-team", "Team", <<"Player 1", "Player 2">>, TRUE)>>
       ELSE validTeams

\* startGame: the teams to play, or the placeholder teams of the game mode
ValidTeams(teamList, gameMode) ==
    LET IsValid(t) == t.enabled /\ Len(t.members) >= 2
        validTeams == SelectSeq(teamList, IsValid)
    IN IF Len(validTeams) = 0
       THEN IF gameMode = "swap-places"
            THEN <<Team("default-team", "Team", <<"Player 1", "Player 2">>, TRUE)>>
            ELSE <<Team("default-player-1", "Player 1", <<"Player 1">>, TRUE),
                   Team("default-player-2", "Player 2", <<"Player 2">>, TRUE)>>
       ELSE validTeams

\* Slip: the game time counts a round per team, not per member
TotalGameSeconds_perTeam(validTeams, roundDuration) == Len(validTeams) * roundDuration

\* startGame: totalPlayerCount * roundDuration
TotalGameSeconds(validTeams, roundDuration) == SumMembers(validTeams) * roundDuration

\* startGame: the gameConfig written to localStorage
StartGameConfig(teamList, gameMode, roundDuration, minPopularity) ==
    LET validTeams == ValidTeams(teamList, gameMode) IN
    [teams |-> validTeams,
     playerDuration |-> roundDuration,
     gameMode |-> gameMode,
     minPopularity |-> minPopularity,
     minArtistsNeeded |-> TotalGameSeconds(validTeams, roundDuration)]

\* Slip: the shuffle loses the last element
ShuffleArray_lossy(array) ==
    { [i \in 1..(Len(array) - 1) |-> array[f[i]]] : f \in Permutations(1..(Len(array) - 1)) }

\* shuffleArray: every order Fisher-Yates can leave
ShuffleArray(array) ==
    { [i \in 1..Len(array) |-> array[f[i]]] : f \in Permutations(1..Len(array)) }

RECURSIVE ShuffleMembers(_)
ShuffleMembers(teamList) ==
    IF teamList = <<>> THEN {<<>>}
    ELSE { <<[Head(teamList) EXCEPT !.members = m]>> \o rest :
             m \in ShuffleArray(Head(teamList).members),
             rest \in ShuffleMembers(Tail(teamList)) }

\* DOMContentLoaded: shuffleArray(teams), then shuffleArray(team.members) for each
ShuffleTeams(teamList) == UNION { ShuffleMembers(t) : t \in ShuffleArray(teamList) }

\* The ids of a set of artists, in the order the sources list them
RECURSIVE SeqOfSet(_)
SeqOfSet(S) ==
    IF S = {} THEN <<>>
    ELSE LET m == CHOOSE x \in S : \A y \in S : x <= y
         IN <<m>> \o SeqOfSet(S \ {m})

\* Slip: an artist with no popularity value passes every floor
FilterByPopularity_keepsUnrated(all, minPopularity) ==
    LET Keep(a) == ArtistPopularity(a) = -1 \/ PopularityOrZero(a) >= minPopularity
    IN IF minPopularity > 0 THEN SelectSeq(all, Keep) ELSE all

\* fetchArtists: the popularity filter
FilterByPopularity(all, minPopularity) ==
    LET Keep(a) == PopularityOrZero(a) >= minPopularity
    IN IF minPopularity > 0 THEN SelectSeq(all, Keep) ELSE all

\* Array.prototype.sort by (b.popularity || 0) - (a.popularity || 0): stable
RECURSIVE InsertByPopularity(_, _)
InsertByPopularity(a, sorted) ==
    IF sorted = <<>> THEN <<a>>
    ELSE IF PopularityOrZero(Head(sorted)) >= PopularityOrZero(a)
         THEN <<Head(sorted)>> \o InsertByPopularity(a, Tail(sorted))
         ELSE <<a>> \o sorted

RECURSIVE SortByPopularity(_)
SortByPopularity(seq) ==
    IF seq = <<>> THEN <<>>
    ELSE InsertByPopularity(seq[Len(seq)], SortByPopularity(SubSeq(seq, 1, Len(seq) - 1)))

\* Slip: the slice is taken without sorting first
TrimPool_unsorted(allArtists, artistsNeeded) ==
    IF Len(allArtists) > artistsNeeded
    THEN LET remaining == Len(allArtists) - artistsNeeded
             bottomTwentyPercent == (remaining * 2) \div 10
             artistsToKeep == Len(allArtists) - bottomTwentyPercent
         IN SubSeq(allArtists, 1, artistsToKeep)
    ELSE allArtists

\* fetchArtists of src/js/game.js: keep the artistsNeeded most popular artists
TrimToNeeded(allArtists, totalGameSeconds) ==
    IF Len(allArtists) > totalGameSeconds
    THEN SubSeq(SortByPopularity(allArtists), 1, totalGameSeconds)
    ELSE allArtists

\* fetchArtists: drop the least popular fifth of the artists beyond the needed count
TrimPool(allArtists, artistsNeeded) ==
    IF Len(allArtists) > artistsNeeded
    THEN LET remaining == Len(allArtists) - artistsNeeded
             bottomTwentyPercent == (remaining * 2) \div 10
             artistsToKeep == Len(allArtists) - bottomTwentyPercent
         IN SubSeq(SortByPopularity(allArtists), 1, artistsToKeep)
    ELSE allArtists

\* fetchArtists: gameConfig.minArtistsNeeded || 20
MinNeeded == IF gameConfig.minArtistsNeeded # 0 THEN gameConfig.minArtistsNeeded ELSE 20

CurrentTeam == gameConfig.teams[currentTeamIndex + 1]

CurrentPlayerId == <<CurrentTeam.id, CurrentTeam.members[currentPlayerIndex + 1]>>

\* Slip: swap-places mode forgets the team size
RoundDuration_perPlayer == gameConfig.playerDuration

\* startRound: the round's duration by game mode
RoundDuration ==
    IF gameConfig.gameMode = "swap-places"
    THEN gameConfig.playerDuration * Len(CurrentTeam.members)
    ELSE gameConfig.playerDuration

\* Slip: the round summary is shown in every mode
SkipsRoundSummary_never == FALSE

\* endRound: if (gameConfig.gameMode === 'swap-places') { showTeamDone(); return; }
SkipsRoundSummary == gameConfig.gameMode = "swap-places"

\* Slip: compares with < where the code compares with <=
TimerExpired_strict(rt) == rt < 0

\* startTimer: if (gameState.remainingTime <= 0) endRound()
TimerExpired(rt) == rt <= 0

\* Slip: the interval is never cleared
TimersAfterEndRound_kept == activeTimers

\* endRound: if (timerInterval) clearInterval(timerInterval)
TimersAfterEndRound ==
    IF timerInterval # 0 THEN activeTimers \ {timerInterval} ELSE activeTimers

\* setInterval: a handle that names no scheduled interval
NewTimerId == CHOOSE i \in 1..(Cardinality(activeTimers) + 1) : i \notin activeTimers

\* Slip: the go button is wired before the images are preloaded
ShowReadyPhase_alwaysWired(pool, handlers) ==
    /\ phase' = "ready"
    /\ onclick' = [handlers EXCEPT !.go = "startRound"]

\* showReadyPhase: the ready prompt is shown; preloadImages throws on an empty
\* pool, before the go button is wired
ShowReadyPhase(pool, handlers) ==
    /\ phase' = "ready"
    /\ onclick' = IF Len(pool) = 0 THEN handlers
                  ELSE [handlers EXCEPT !.go = "startRound"]

\* Slip: the exhausted pool is not reshuffled and the index runs on
ShowCurrentArtist_noReshuffle(idx) ==
    /\ artists' = artists
    /\ currentArtistIndex' = idx
    /\ currentArtistStartTime' = dateNow

\* Slip: the guess is timed from the start of the round
GuessTime_fromRoundStart == dateNow - roundStartTime

\* handleCorrect: (Date.now() - gameState.currentArtistStartTime) / 1000
GuessTime == dateNow - currentArtistStartTime

\* Slip: the index may sit one past the last artist
PoolExhausted_strict(idx) == idx > Len(artists)

\* showCurrentArtist: gameState.currentArtistIndex >= gameState.artists.length
PoolExhausted(idx) == idx >= Len(artists)

\* showCurrentArtist, entered with the artist index idx: reshuffle on exhaustion
ShowCurrentArtist(idx) ==
    /\ IF PoolExhausted(idx)
       THEN \E pool \in ShuffleArray(artists) :
               /\ artists' = pool
               /\ currentArtistIndex' = 0
       ELSE /\ artists' = artists
            /\ currentArtistIndex' = idx
    /\ currentArtistStartTime' = dateNow

\* startRound
StartRound ==
    /\ phase' = "playing"
    /\ remainingTime' = RoundDuration
    /\ initialRoundDuration' = RoundDuration
    /\ roundStartTime' = dateNow
    /\ playerStats' = [playerStats EXCEPT ![CurrentPlayerId] = StatsAtRoundStart(@)]
    /\ IF Len(artists) = 0
       THEN \* showCurrentArtist throws: no timer, no handlers
            UNCHANGED <<artists, currentArtistIndex, timerInterval, activeTimers,
                        onclick, roundsStarted, played, currentArtistStartTime>>
       ELSE /\ ShowCurrentArtist(currentArtistIndex)
            /\ timerInterval' = NewTimerId
            /\ activeTimers' = activeTimers \cup {NewTimerId}
            /\ onclick' = [onclick EXCEPT !.pass = "handlePass",
                                          !.correct = "handleCorrect"]
            /\ roundsStarted' = roundsStarted + 1
            /\ played' = Append(played, CurrentPlayerId)
    /\ UNCHANGED <<gameConfig, currentTeamIndex, currentPlayerIndex, scores,
                   insufficient, roundsEnded, signals>>

\* Slip: the game is over after the first team
HasNextTeam_never == FALSE

\* showTeamDone: gameState.currentTeamIndex < gameConfig.teams.length - 1
HasNextTeam == currentTeamIndex < Len(gameConfig.teams) - 1

\* showTeamDone (showGameOver when no team is left)
ShowTeamDone ==
    IF HasNextTeam
    THEN /\ currentTeamIndex' = currentTeamIndex + 1
         /\ currentPlayerIndex' = 0
         /\ phase' = "teamDone"
         /\ onclick' = [onclick EXCEPT !.nextTeam = "showReadyPhase"]
    ELSE /\ phase' = "gameOver"
         /\ UNCHANGED <<currentTeamIndex, currentPlayerIndex, onclick>>

\* endRound
EndRound ==
    /\ activeTimers' = TimersAfterEndRound
    /\ timerInterval' = 0
    /\ currentArtistIndex' = currentArtistIndex + 1
    /\ roundsEnded' = roundsEnded + 1
    /\ IF SkipsRoundSummary
       THEN ShowTeamDone
       ELSE /\ phase' = "roundDone"
            /\ currentTeamIndex' = currentTeamIndex
            /\ IF currentPlayerIndex < Len(CurrentTeam.members) - 1
               THEN /\ currentPlayerIndex' = NextPlayerIndex(currentPlayerIndex)
                    /\ onclick' = [onclick EXCEPT !.continue = "startRound"]
               ELSE /\ currentPlayerIndex' = currentPlayerIndex
                    /\ onclick' = [onclick EXCEPT !.continue = "showTeamDone"]

\* The setup page's team editor (addTeam, removeTeam, updateTeamMembers,
\* toggleTeam): the teams list becomes one of the rosters
EditTeams ==
    /\ phase = "setup"
    /\ \E roster \in TeamSetups \ {teams} : teams' = roster
    /\ UNCHANGED <<phase, gameConfig, artists, currentTeamIndex, currentPlayerIndex,
                   currentArtistIndex, scores, playerStats, remainingTime,
                   initialRoundDuration, timerInterval, activeTimers, onclick,
                   insufficient, roundsStarted, played, roundsEnded, signals,
                   authVars, pureVars,
                   dateNow, roundStartTime, currentArtistStartTime, guessTime, secondsRun>>

\* startGame on the setup page: validate, write gameConfig, go to game.html
StartGame ==
    /\ phase = "setup"
    /\ \E gameMode \in GameModes,
          roundDuration \in 1..MaxDuration, minPopularity \in PopularityFloors :
         gameConfig' = StartGameConfig(teams, gameMode, roundDuration, minPopularity)
    /\ phase' = "navigating"
    /\ UNCHANGED <<artists, currentTeamIndex, currentPlayerIndex, currentArtistIndex,
                   scores, playerStats, remainingTime, initialRoundDuration,
                   timerInterval, activeTimers, onclick, insufficient, roundsStarted, played,
                   roundsEnded, signals, authVars, pureVars, teams,
                   dateNow, roundStartTime, currentArtistStartTime, guessTime, secondsRun>>

\* DOMContentLoaded on the game page, up to its await of fetchArtists
GamePageLoad ==
    /\ phase = "navigating"
    /\ \E shuffled \in ShuffleTeams(gameConfig.teams) :
         /\ gameConfig' = [gameConfig EXCEPT !.teams = shuffled]
         /\ IF ~isAuthenticated
            THEN /\ phase' = "redirected"
                 /\ UNCHANGED <<scores, playerStats>>
            ELSE /\ phase' = "loading"
                 /\ scores' = [id \in {shuffled[i].id : i \in 1..Len(shuffled)} |-> 0]
                 /\ playerStats' =
                      [pid \in UNION { {<<shuffled[i].id, shuffled[i].members[j]>> :
                                          j \in 1..Len(shuffled[i].members)} :
                                       i \in 1..Len(shuffled) } |-> NewStat]
    /\ teams' = <<>>   \* the setup page and its script are gone
    /\ UNCHANGED <<artists, currentTeamIndex, currentPlayerIndex, currentArtistIndex,
                   remainingTime, initialRoundDuration, timerInterval, activeTimers,
                   onclick, insufficient, roundsStarted, played, roundsEnded, signals,
                   authVars, pureVars,
                   dateNow, roundStartTime, currentArtistStartTime, guessTime, secondsRun>>

\* fetchArtists resolves with the sources' artists; then DOMContentLoaded goes on
\* to showReadyPhase, whether or not fetchArtists showed the error phase
FetchArtistsLoaded ==
    /\ phase = "loading"
    /\ \E found \in SUBSET (1..MaxArtists) :
         LET filtered == FilterByPopularity(SeqOfSet(found), gameConfig.minPopularity)
             trimmed == TrimPool(filtered, gameConfig.minArtistsNeeded)
         IN \E pool \in ShuffleArray(trimmed) :
              /\ artists' = pool
              /\ insufficient' = (Len(pool) < MinNeeded)
              /\ ShowReadyPhase(pool, onclick)
    /\ UNCHANGED <<gameConfig, currentTeamIndex, currentPlayerIndex,
                   currentArtistIndex, scores, playerStats, remainingTime,
                   initialRoundDuration, timerInterval, activeTimers, roundsStarted, played,
                   roundsEnded, signals, authVars, pureVars, teams,
                   dateNow, roundStartTime, currentArtistStartTime, guessTime, secondsRun>>

\* fetchArtists catches a failed fetch; then DOMContentLoaded goes on to showReadyPhase
FetchArtistsFailed ==
    /\ phase = "loading"
    /\ ShowReadyPhase(artists, onclick)
    /\ UNCHANGED <<gameConfig, artists, currentTeamIndex, currentPlayerIndex,
                   currentArtistIndex, scores, playerStats, remainingTime,
                   initialRoundDuration, timerInterval, activeTimers, insufficient,
                   roundsStarted, played, roundsEnded, signals, authVars, pureVars, teams,
                   dateNow, roundStartTime, currentArtistStartTime, guessTime, secondsRun>>

\* The go button is pressed
GoClick ==
    /\ PhaseShown("ready")
    /\ onclick.go = "startRound"
    /\ StartRound
    /\ UNCHANGED <<authVars, pureVars, teams, dateNow, guessTime, secondsRun>>

\* The interval callback of startTimer fires
TimerTick ==
    /\ \E id \in activeTimers : TRUE
    /\ remainingTime' = remainingTime - 1
    /\ IF TimerExpired(remainingTime - 1)
       THEN /\ EndRound
            /\ UNCHANGED <<gameConfig, artists, scores, playerStats,
                           initialRoundDuration, insufficient, roundsStarted, played,
                           signals>>
       ELSE UNCHANGED <<phase, gameConfig, artists, currentTeamIndex,
                        currentPlayerIndex, currentArtistIndex, scores, playerStats,
                        initialRoundDuration, timerInterval, activeTimers, onclick,
                        insufficient, roundsStarted, played, roundsEnded, signals>>
    /\ secondsRun' = secondsRun + 1
    /\ UNCHANGED <<authVars, pureVars, teams, dateNow, roundStartTime,
                   currentArtistStartTime, guessTime>>

\* handlePass
PassClick ==
    /\ PhaseShown("playing")
    /\ onclick.pass = "handlePass"
    /\ signals.correct + signals.pass < MaxSignals
    /\ playerStats' = [playerStats EXCEPT ![CurrentPlayerId] =
                         StatsAfterPass(@)]
    /\ ShowCurrentArtist(currentArtistIndex + 1)
    /\ signals' = [signals EXCEPT !.pass = @ + 1]
    /\ UNCHANGED <<phase, gameConfig, currentTeamIndex, currentPlayerIndex, scores,
                   remainingTime, initialRoundDuration, timerInterval, activeTimers,
                   onclick, insufficient, roundsStarted, played, roundsEnded,
                   authVars, pureVars, teams, dateNow, roundStartTime, guessTime,
                   secondsRun>>

\* handleCorrect
CorrectClick ==
    /\ PhaseShown("playing")
    /\ onclick.correct = "handleCorrect"
    /\ signals.correct + signals.pass < MaxSignals
    /\ playerStats' = [playerStats EXCEPT ![CurrentPlayerId] = StatsAfterCorrect(@)]
    /\ scores' = [scores EXCEPT ![CurrentTeam.id] = ScoreAfterCorrect(@)]
    /\ ShowCurrentArtist(currentArtistIndex + 1)
    /\ signals' = [signals EXCEPT !.correct = @ + 1]
    /\ guessTime' = GuessTime
    /\ UNCHANGED <<phase, gameConfig, currentTeamIndex, currentPlayerIndex,
                   remainingTime, initialRoundDuration, timerInterval, activeTimers,
                   onclick, insufficient, roundsStarted, played, roundsEnded,
                   authVars, pureVars, teams, dateNow, roundStartTime, secondsRun>>

\* The continue button of the round summary is pressed
ContinueClick ==
    /\ PhaseShown("roundDone")
    /\ onclick.continue # "none"
    /\ IF onclick.continue = "startRound"
       THEN StartRound
       ELSE /\ ShowTeamDone
            /\ UNCHANGED <<gameConfig, artists, currentArtistIndex, scores,
                           playerStats, remainingTime, initialRoundDuration,
                           timerInterval, activeTimers, insufficient, roundsStarted, played,
                           roundsEnded, signals, roundStartTime,
                           currentArtistStartTime>>
    /\ UNCHANGED <<authVars, pureVars, teams, dateNow, guessTime, secondsRun>>

\* The next-team button is pressed
NextTeamClick ==
    /\ PhaseShown("teamDone")
    /\ onclick.nextTeam = "showReadyPhase"
    /\ ShowReadyPhase(artists, onclick)
    /\ UNCHANGED <<gameConfig, artists, currentTeamIndex, currentPlayerIndex,
                   currentArtistIndex, scores, playerStats, remainingTime,
                   initialRoundDuration, timerInterval, activeTimers, insufficient,
                   roundsStarted, played, roundsEnded, signals, authVars, pureVars, teams,
                   dateNow, roundStartTime, currentArtistStartTime, guessTime, secondsRun>>

\* A second passes on the game page
ClockAdvance ==
    /\ dateNow < MaxClock
    /\ dateNow' = dateNow + 1
    /\ UNCHANGED <<authVars, pureVars, phase, gameConfig, artists, currentTeamIndex,
                   currentPlayerIndex, currentArtistIndex, scores, playerStats,
                   remainingTime, initialRoundDuration, timerInterval, activeTimers,
                   onclick, insufficient, roundsStarted, played, roundsEnded, signals,
                   teams, roundStartTime, currentArtistStartTime, guessTime, secondsRun>>

\* let gameState = {...}, before any page ran
GameInit ==
    /\ phase = "setup"
    /\ gameConfig = NoConfig
    /\ artists = <<>>
    /\ currentTeamIndex = 0
    /\ currentPlayerIndex = 0
    /\ currentArtistIndex = 0
    /\ scores = EmptyMap
    /\ playerStats = EmptyMap
    /\ remainingTime = 0
    /\ initialRoundDuration = 0
    /\ timerInterval = 0
    /\ activeTimers = {}
    /\ onclick = NoHandlers
    /\ insufficient = FALSE
    /\ roundsStarted = 0
    /\ played = <<>>
    /\ roundsEnded = 0
    /\ signals = NoSignals
    /\ teams = <<>>
    /\ dateNow = 0
    /\ roundStartTime = 0
    /\ currentArtistStartTime = 0
    /\ guessTime = -1
    /\ secondsRun = 0

\* ----------------------------------------------------------------------
\* PKCE code challenge (generateCodeChallenge, base64UrlEncode)
\* ----------------------------------------------------------------------

\* btoa's alphabet, by sextet value + 1
Base64Alphabet ==
    <<"A", "B", "C", "D", "E", "F", "G", "H", "I", "J", "K", "L", "M", "N", "O", "P",
       "Q", "R", "S", "T", "U", "V", "W", "X", "Y", "Z", "a", "b", "c", "d", "e", "f",
       "g", "h", "i", "j", "k", "l", "m", "n", "o", "p", "q", "r", "s", "t", "u", "v",
       "w", "x", "y", "z", "0", "1", "2", "3", "4", "5", "6", "7", "8", "9", "+", "/">>

\* Bytes crypto.subtle.digest may return; 251 and 255 put the sextets 62 and
\* 63 into the output
ByteSamples == {0, 65, 190, 251, 255}

\* The digests handed to base64UrlEncode. The encoding works on groups of
\* three bytes, so the lengths 0..MaxBytes cover every remainder, the two
\* bytes left over by a 32-byte digest included.
RECURSIVE BytesOfLen(_)
BytesOfLen(n) ==
    IF n = 0 THEN {<<>>}
    ELSE { <<b>> \o rest : b \in ByteSamples, rest \in BytesOfLen(n - 1) }

Digests == UNION { BytesOfLen(n) : n \in 0..MaxBytes }

\* btoa(binary), binary holding one character per byte: three bytes give four
\* characters, a last group of one or two bytes is padded with '='
RECURSIVE Btoa(_)
Btoa(bytes) ==
    LET Char(v) == Base64Alphabet[v + 1] IN
    IF Len(bytes) = 0 THEN <<>>
    ELSE IF Len(bytes) = 1
    THEN LET n == bytes[1] * 65536
         IN <<Char(n \div 262144), Char((n \div 4096) % 64), "=", "=">>
    ELSE IF Len(bytes) = 2
    THEN LET n == bytes[1] * 65536 + bytes[2] * 256
         IN <<Char(n \div 262144), Char((n \div 4096) % 64), Char((n \div 64) % 64), "=">>
    ELSE LET n == bytes[1] * 65536 + bytes[2] * 256 + bytes[3]
         IN <<Char(n \div 262144), Char((n \div 4096) % 64),
              Char((n \div 64) % 64), Char(n % 64)>> \o Btoa(SubSeq(bytes, 4, Len(bytes)))

\* String.prototype.replace with a global pattern of one character
ReplaceAll(str, from, to) == [i \in 1..Len(str) |-> IF str[i] = from THEN to ELSE str[i]]

\* .replace(/=+$/, '')
RECURSIVE StripPadding(_)
StripPadding(str) ==
    IF Len(str) > 0 /\ str[Len(str)] = "="
    THEN StripPadding(SubSeq(str, 1, Len(str) - 1))
    ELSE str

\* Slip: the standard alphabet and the padding are kept
Base64UrlEncode_standard(bytes) == Btoa(bytes)

\* base64UrlEncode
Base64UrlEncode(bytes) ==
    StripPadding(ReplaceAll(ReplaceAll(Btoa(bytes), "+", "-"), "/", "_"))

\* generateCodeChallenge: the digest of the verifier, encoded
GenerateCodeChallenge ==
    /\ \E d \in Digests :
         /\ digest' = d
         /\ codeChallenge' = Base64UrlEncode(d)
    /\ UNCHANGED <<authVars, gameVars, trimIn, trimNeeded, trimOut,
                   filterIn, filterFloor, filterOut>>

\* The pools fetchArtists may hold after the popularity filter: any artists,
\* in the order of their ids or in the opposite order
Reverse(seq) == [i \in 1..Len(seq) |-> seq[Len(seq) + 1 - i]]

FilteredPools ==
    UNION { {SeqOfSet(S), Reverse(SeqOfSet(S))} : S \in SUBSET (1..MaxPool) }

\* fetchArtists, lines 167-186: the trim of a pool for a needed count
TrimArtists ==
    /\ trimNeeded = 0   \* fetchArtists runs once on a page
    /\ \E pool \in FilteredPools, needed \in 1..MaxNeeded :
         /\ trimIn' = pool
         /\ trimNeeded' = needed
         /\ trimOut' = TrimPool(pool, needed)
    /\ UNCHANGED <<authVars, gameVars, digest, codeChallenge,
                   filterIn, filterFloor, filterOut>>

\* fetchArtists of src/js/game.js: the trim of a pool for a needed count
TrimArtistsToNeeded ==
    /\ trimNeeded = 0   \* fetchArtists runs once on a page
    /\ \E pool \in FilteredPools, needed \in 1..MaxNeeded :
         /\ trimIn' = pool
         /\ trimNeeded' = needed
         /\ trimOut' = TrimToNeeded(pool, needed)
    /\ UNCHANGED <<authVars, gameVars, digest, codeChallenge,
                   filterIn, filterFloor, filterOut>>

\* No pure function has been applied
PureInit ==
    /\ digest = <<>>
    /\ codeChallenge = <<>>
    /\ trimIn = <<>>
    /\ trimNeeded = 0
    /\ trimOut = <<>>
    /\ filterIn = <<>>
    /\ filterFloor = -1
    /\ filterOut = <<>>

AuthNext ==
    \/ \E c \in Callers : EnsureAuthenticated(c)
    \/ \E c \in Callers : ProviderAnswerRefresh(c)
    \/ \E c \in Callers : ProviderAnswerCC(c)
    \/ \E c \in Callers : RefreshNetworkError(c)
    \/ \E c \in Callers : RefreshRejected(c)
    \/ \E c \in Callers : RefreshRetry(c)
    \/ \E c \in Callers : RefreshSucceeded(c)
    \/ \E c \in Callers : ClientCredentialsResponse(c)
    \/ \E c \in Callers : CallSettled(c)
    \/ Logout
    \/ RedirectToSpotifyAuth
    \/ CallbackDenied
    \/ ReplayCallbackUrl
    \/ HandleCallback
    \/ ExchangeResponse
    \/ CallbackPageReady
    \/ PageLoad
    \/ ClockTick

\* The Session Manager on the setup page
AuthPageInit == AuthInit /\ GameInit /\ PureInit

AuthSpec == AuthPageInit /\ [][AuthNext]_vars

Next ==
    \/ EditTeams
    \/ StartGame
    \/ GamePageLoad
    \/ FetchArtistsLoaded
    \/ FetchArtistsFailed
    \/ GoClick
    \/ TimerTick
    \/ PassClick
    \/ CorrectClick
    \/ ContinueClick
    \/ NextTeamClick

\* A game: setup page to game over, started with or without an earlier login
Init == (\E storedRT \in {0, 1} : AuthInitWith(storedRT)) /\ GameInit /\ PureInit

Spec == Init /\ [][Next]_vars

\* generateCodeChallenge on its own, for every digest
PkceInit == AuthInit /\ GameInit /\ PureInit

PkceNext == GenerateCodeChallenge

PkceSpec == PkceInit /\ [][PkceNext]_vars

\* fetchArtists' trim on its own, for every pool and needed count
TrimInit == AuthInit /\ GameInit /\ PureInit

TrimNext == TrimArtists \/ TrimArtistsToNeeded

TrimSpec == TrimInit /\ [][TrimNext]_vars

\* The floors the min-popularity setting is tried with
FilterFloors == {0, 20, 21, 50, 90, 100}

\* The artists the sources may return, in the order of their ids or the opposite
SourcePools ==
    UNION { {SeqOfSet(S), Reverse(SeqOfSet(S))} : S \in SUBSET (1..MaxPool) }

\* fetchArtists, lines 156-165: the popularity filter of the artists loaded
FilterArtists ==
    /\ filterFloor = -1   \* fetchArtists runs once on a page
    /\ \E all \in SourcePools, minPopularity \in FilterFloors :
         /\ filterIn' = all
         /\ filterFloor' = minPopularity
         /\ filterOut' = FilterByPopularity(all, minPopularity)
    /\ UNCHANGED <<authVars, gameVars, digest, codeChallenge, trimIn, trimNeeded, trimOut>>

\* fetchArtists' popularity filter on its own, for every pool and floor
FilterInit == AuthInit /\ GameInit /\ PureInit

FilterNext == FilterArtists

FilterSpec == FilterInit /\ [][FilterNext]_vars

\* A game during which the clock of the page moves on
TimedNext == Next \/ ClockAdvance

TimedSpec == Init /\ [][TimedNext]_vars

\* A game whose timer ticks and whose go, continue and next-team signals are
\* delivered: setInterval keeps firing while the timer is active, and the
\* players press the button they are shown. Each phase enables one of the
\* four at most, so one fairness condition covers them.
Delivered == TimerTick \/ GoClick \/ ContinueClick \/ NextTeamClick

FairSpec == Init /\ [][Next]_vars /\ WF_vars(Delivered)

\* ======================================================================
\* Properties of the Game Round Engine (checked under Spec)
\* ======================================================================

\* C1: when the pool after filtering holds fewer artists than the minimum
\* needed, the Engine never reaches Playing.
C1_NeverPlaysUnderProvisioned ==
    insufficient => phase # "playing"

\* C6: a round's remainingTime starts at its duration D >= 1, changes only by one
\* decrement per tick, never goes below 0, and the round ends exactly once, when
\* remainingTime is 0.
C6_Countdown ==
    /\ [](/\ remainingTime >= 0
          /\ phase = "playing" =>
                (remainingTime >= 1 /\ remainingTime <= initialRoundDuration)
          /\ roundsStarted = roundsEnded + (IF phase = "playing" THEN 1 ELSE 0))
    /\ [][remainingTime' # remainingTime =>
            \/ /\ phase = "playing"
               /\ remainingTime' = remainingTime - 1
            \/ /\ phase # "playing" /\ phase' = "playing"
               /\ roundsStarted' = roundsStarted + 1
               /\ remainingTime' = RoundDuration
               /\ RoundDuration >= 1]_vars
    /\ [][roundsEnded' # roundsEnded =>
            /\ roundsEnded' = roundsEnded + 1
            /\ phase = "playing" /\ phase' # "playing"
            /\ remainingTime = 1 /\ remainingTime' = 0]_vars

\* C6 witness: a round of more than one second has run down to 0 and ended.
C6_Witness ==
    /\ phase = "roundDone" /\ remainingTime = 0
    /\ initialRoundDuration >= 2 /\ roundsEnded = roundsStarted /\ roundsEnded >= 1

\* C7: the countdown is scheduled only while the phase is Playing, and at most
\* one countdown is scheduled at any time.
C7_NoOrphanTimer ==
    /\ Cardinality(activeTimers) <= 1
    /\ activeTimers # {} => phase = "playing"
    /\ phase = "playing" => activeTimers = {timerInterval}

\* C7 witness: a second round is being played after the first round's
\* countdown was cancelled.
C7_Witness ==
    /\ phase = "playing" /\ roundsEnded >= 1
    /\ activeTimers = {timerInterval} /\ timerInterval # 0


\* ======================================================================
\* Properties of the Session Manager (checked under AuthSpec)
\* ======================================================================

RefreshInFlight(c) == req[c].kind = "refresh" /\ req[c].stage \in {"sent", "answered"}

CredentialsAbsent == accessToken = "none" /\ refreshToken = 0 /\ lsRefresh = 0

\* C2: overlapping ensureAuthenticated calls that find the token missing or
\* expiring send at most one refresh request between them (single-flight):
\* never are two refresh requests outstanding at the same time.
C2_SingleFlightRefresh ==
    Cardinality({c \in Callers : RefreshInFlight(c)}) <= 1

\* C3: when logout() ran while a refresh request was in flight and the request
\* then succeeds, handling the response leaves the access token, the in-memory
\* refresh token and the durable refresh token absent.
C3_LateRefreshDiscarded ==
    [][\A c \in Callers :
         (/\ pc[c] = "refreshWait" /\ req[c].stage = "answered"
          /\ req[c].status = 200 /\ req[c].stale
          /\ CredentialsAbsent
          /\ pc'[c] = "done")
         => (accessToken' = "none" /\ refreshToken' = 0 /\ lsRefresh' = 0)]_vars

\* C4: handling a 5xx refresh response leaves the access token and both refresh
\* tokens as they were; handling a 4xx refresh response leaves all three absent.
C4_RefreshStatusEffect ==
    [][\A c \in Callers :
         (/\ pc[c] = "refreshWait" /\ req[c].stage = "answered"
          /\ req[c].status \notin {0, 200}
          /\ pc'[c] \in {"backoff", "failed"})
         => /\ req[c].status >= 500 =>
                  UNCHANGED <<accessToken, refreshToken, lsRefresh>>
            /\ (req[c].status >= 400 /\ req[c].status < 500) =>
                  (accessToken' = "none" /\ refreshToken' = 0 /\ lsRefresh' = 0)]_vars

\* C4 witness: a call has failed on a 5xx answer after its last retry while the
\* user's credentials are still in place.
C4_Witness ==
    \E c \in Callers :
        /\ pc[c] = "failed" /\ req[c].kind = "refresh" /\ req[c].stage = "handled"
        /\ req[c].status = 500
        /\ accessToken = "user" /\ refreshToken # 0 /\ lsRefresh # 0

\* C5 as claimed: one call sends at most 3 refresh requests in total.
C5_AtMostThreeRequests ==
    \A c \in Callers : attempts[c] <= 3

\* C5 as amended: one call sends at most 4 refresh requests (the first plus 3
\* retries); the wait before retry k is 1000 * 2^(k-1) ms (1 s, 2 s, 4 s); a call
\* that ends on a 5xx answer has sent exactly 4 requests.
C5_BoundedBackoff ==
    \A c \in Callers :
        /\ attempts[c] <= MaxRetries + 1
        /\ pc[c] = "backoff" =>
              /\ attempts[c] <= MaxRetries
              /\ delayMs[c] = BackoffBaseMs * Pow2(attempts[c] - 1)
        /\ (pc[c] = "failed" /\ req[c].kind = "refresh" /\ req[c].status >= 500) =>
              attempts[c] = MaxRetries + 1

\* C5 witness: a call that was answered 5xx every time has failed after 4 requests.
C5_Witness ==
    \E c \in Callers :
        /\ pc[c] = "failed" /\ req[c].kind = "refresh" /\ req[c].status = 500
        /\ attempts[c] = 4 /\ retryCount[c] = 3

\* C8: ensureAuthenticated picks its action by the behaviour table: no access
\* token and a durable refresh token -> one refresh request with it; no access
\* token and no refresh token -> one client-credential request; access token
\* expiring within 5 minutes -> refresh if a refresh token exists, else a
\* client-credential request; otherwise no request and no credential change.
C8_BehaviourTable ==
    [][\A c \in Callers :
         (pc[c] = "idle" /\ pc'[c] # "idle") =>
           LET refreshSent == /\ pc'[c] = "refreshWait"
                              /\ req'[c].kind = "refresh" /\ req'[c].stage = "sent"
                              /\ attempts'[c] = 1
               anonSent    == /\ pc'[c] = "ccWait"
                              /\ req'[c].kind = "cc" /\ req'[c].stage = "sent"
               noRequest   == /\ pc'[c] = "done" /\ req'[c] = NoReq
                              /\ UNCHANGED <<accessToken, tokenExpiry, refreshToken,
                                             lsRefresh>>
               hasRefresh  == refreshToken # 0 \/ lsRefresh # 0
               soon        == tokenExpiry - now <= RefreshMarginMin
           IN /\ (accessToken = "none" /\ lsRefresh # 0) =>
                    (refreshSent /\ req'[c].rt = lsRefresh)
              /\ (accessToken = "none" /\ ~hasRefresh) => anonSent
              /\ (accessToken # "none" /\ soon /\ hasRefresh) => refreshSent
              /\ (accessToken # "none" /\ soon /\ ~hasRefresh) => anonSent
              /\ (accessToken # "none" /\ ~soon) => noRequest]_vars

\* C8 witness: a call returned at once, without a request, on a user token that
\* is not expiring soon.
C8_Witness ==
    /\ accessToken = "user" /\ tokenExpiry - now > RefreshMarginMin
    /\ \E c \in Callers : pc[c] = "done" /\ req[c] = NoReq

\* C9: no refresh request is sent carrying a refresh token the provider has
\* already replaced through rotation.
C9_NoSupersededTokenSent ==
    \A c \in Callers : ~(req[c].kind = "refresh" /\ req[c].superseded)

\* C10: a client-credential request is sent only when no refresh token exists
\* in memory or in durable storage, and never between a successful user login
\* and the logout or 4xx refresh failure that ends it.
C10_AnonymousOnlyWithoutUser ==
    [][\A c \in Callers :
         (req[c].kind # "cc" /\ req'[c].kind = "cc") =>
            (refreshToken = 0 /\ lsRefresh = 0 /\ ~userSession)]_vars

\* C10 witness: a client-credential request is out after a user session that
\* had been established has ended.
C10_Witness ==
    /\ provIssued >= 1 /\ ~userSession
    /\ \E c \in Callers : req[c].kind = "cc" /\ req[c].stage = "sent"

TokenRecord == <<accessToken, tokenExpiry, refreshToken, lsRefresh>>

ExchangeInFlight == loginPc \in {"exchangeWait", "replayWait"}

C12_VerifierConsumedOnce ==
    /\ [](loginPc \in {"loggedIn", "exchangeFailed"} => lsVerifier = 0)
    /\ [][/\ (ExchangeInFlight /\ ~ExchangeInFlight') => lsVerifier' = 0
          /\ (~ExchangeInFlight /\ ExchangeInFlight') => lsVerifier # 0
          /\ (lsVerifier = 0 /\ lsVerifier' # 0) => loginPc' = "atProvider"]_vars

\* C12 witness: an exchange failed (non-2xx or network) and the slot is empty.
C12_Witness ==
    loginPc = "exchangeFailed" /\ lsVerifier = 0 /\ accessToken = "none"

\* C13: handleCallback on a callback with a provider error, or with no stored
\* verifier, fails without a token-endpoint request and leaves the token record
\* unchanged.
C13_CallbackRejectedEarly ==
    [][(/\ loginPc \in {"atProvider", "errorPage", "replayPage"}
        /\ loginPc' \notin {"errorPage", loginPc}
        /\ (loginPc = "errorPage" \/ lsVerifier = 0))
         => /\ loginPc' = (IF loginPc = "errorPage" THEN "denied" ELSE "missingVerifier")
            /\ ~ExchangeInFlight'
            /\ UNCHANGED TokenRecord
            /\ UNCHANGED <<provIssued, provValid>>]_vars

\* C13 witness: a callback carrying a provider error was refused while a
\* verifier was stored.
C13_Witness ==
    loginPc = "denied" /\ lsVerifier # 0

\* C14: logout() sends no request, and afterwards the access token, its expiry
\* and both refresh tokens are absent, so isAuthenticated() is false; it is
\* available in every state of an interactive page.
C14_LogoutClears ==
    /\ [](loginPc = "none" => ENABLED Logout)
    /\ [][Logout =>
            /\ accessToken' = "none" /\ tokenExpiry' = 0
            /\ refreshToken' = 0 /\ lsRefresh' = 0
            /\ ~isAuthenticated'
            /\ \A c \in Callers :
                 /\ pc'[c] = pc[c]
                 /\ req'[c].stage = req[c].stage /\ req'[c].kind = req[c].kind]_vars

\* C14 witness: logout ran while a refresh request was in flight.
C14_Witness ==
    /\ accessToken = "none" /\ refreshToken = 0 /\ lsRefresh = 0
    /\ \E c \in Callers : req[c].stale /\ req[c].stage = "sent"

\* C15: when a refresh request fails at the network level, the call fails (the
\* error propagates), it sends no further refresh request, and the in-memory
\* and durable credentials are unchanged.
C15_NetworkErrorPropagates ==
    /\ [][\A c \in Callers :
            (/\ pc[c] = "refreshWait" /\ req[c].stage = "answered"
             /\ req[c].status = 0 /\ req'[c].stage = "handled")
            => /\ pc'[c] = "failed"
               /\ attempts'[c] = attempts[c]
               /\ UNCHANGED <<TokenRecord, lsVerifier>>]_vars
    /\ [][\A c \in Callers :
            (pc[c] = "failed" /\ req[c].kind = "refresh" /\ req[c].status = 0)
            => (attempts'[c] = attempts[c] \/ pc'[c] = "idle")]_vars

\* C15 witness: a call failed on a network error with the user's credentials
\* still in place.
C15_Witness ==
    \E c \in Callers :
        /\ pc[c] = "failed" /\ req[c].kind = "refresh" /\ req[c].stage = "handled"
        /\ req[c].status = 0 /\ attempts[c] = 1
        /\ accessToken = "user" /\ refreshToken # 0 /\ lsRefresh # 0

\* ======================================================================
\* Further properties of the Game Round Engine (checked under Spec)
\* ======================================================================

SwapPlaces == gameConfig.gameMode = "swap-places"

RECURSIVE SumOver(_, _)
SumOver(f, S) ==
    IF S = {} THEN 0
    ELSE LET x == CHOOSE y \in S : TRUE IN f[x] + SumOver(f, S \ {x})

\* C16: for every player, bestStreak >= currentStreak in every reachable state.
C16_BestStreakBoundsCurrent ==
    \A pid \in DOMAIN playerStats :
        playerStats[pid].bestStreak >= playerStats[pid].currentStreak

\* C16 witness: a player's streak of one correct guess was broken by a pass and
\* the best streak kept it.
C16_Witness ==
    \E pid \in DOMAIN playerStats :
        /\ playerStats[pid].bestStreak = 1 /\ playerStats[pid].currentStreak = 0
        /\ playerStats[pid].correct = 1 /\ playerStats[pid].passed = 1

\* C17: the sum of all teams' scores equals the number of correct signals
\* handled so far; pass signals score nothing.
C17_ScoresCountCorrects ==
    SumOver(scores, DOMAIN scores) = signals.correct

\* C17 witness: the game is over after a correct and a pass signal, with two
\* teams on the board.
C17_Witness ==
    /\ phase = "gameOver" /\ Cardinality(DOMAIN scores) = 2
    /\ signals.correct = 1 /\ signals.pass = 1

\* C18: with a non-empty pool, a correct or pass signal handled in Playing leaves
\* the phase Playing and ends no round; when it consumes the last pool entry the
\* pool is reshuffled (the same records) and currentArtistIndex restarts at 0,
\* otherwise the pool is untouched and the index moves on by one.
C18_SignalKeepsPlaying ==
    [][(signals' # signals /\ Len(artists) > 0) =>
         /\ phase = "playing" /\ phase' = "playing"
         /\ roundsEnded' = roundsEnded
         /\ UNCHANGED <<remainingTime, timerInterval, activeTimers>>
         /\ IF currentArtistIndex + 1 >= Len(artists)
            THEN /\ currentArtistIndex' = 0
                 /\ Len(artists') = Len(artists)
                 /\ {artists'[i] : i \in 1..Len(artists')} =
                        {artists[i] : i \in 1..Len(artists)}
            ELSE /\ currentArtistIndex' = currentArtistIndex + 1
                 /\ artists' = artists]_vars

\* C18 witness: two signals were handled on a pool of one artist (each one
\* exhausted the pool) and the round is still being played.
C18_Witness ==
    /\ phase = "playing" /\ Len(artists) = 1
    /\ signals.correct + signals.pass = 2 /\ currentArtistIndex = 0
    /\ roundsEnded = 0

\* C19: on every transition into Playing, remainingTime is set to
\* playerDuration * (members of the active team) in swap-places mode and to
\* playerDuration in individual mode.
C19_RoundDurationByMode ==
    [][(phase # "playing" /\ phase' = "playing") =>
         LET members == gameConfig.teams[currentTeamIndex + 1].members
         IN /\ SwapPlaces =>
                  remainingTime' = gameConfig.playerDuration * Len(members)
            /\ ~SwapPlaces => remainingTime' = gameConfig.playerDuration
            /\ initialRoundDuration' = remainingTime']_vars

\* C19 witness: a swap-places round of a team of three at two seconds per
\* player has just started with six seconds.
C19_Witness ==
    /\ phase = "playing" /\ SwapPlaces
    /\ Len(CurrentTeam.members) = 3 /\ gameConfig.playerDuration = 2
    /\ remainingTime = 6

\* C20: in swap-places mode RoundDone is never entered; each team plays exactly
\* one round, whose end leads to TeamDone, or to GameOver for the last team.
C20_SwapPlacesSkipsRoundDone ==
    /\ []((SwapPlaces /\ phase \in {"ready", "playing", "teamDone", "gameOver"}) =>
            /\ roundsStarted = currentTeamIndex +
                                 (IF phase \in {"playing", "gameOver"} THEN 1 ELSE 0)
            /\ phase = "gameOver" => roundsEnded = Len(gameConfig.teams))
    /\ [](SwapPlaces => phase # "roundDone")
    /\ [][(SwapPlaces /\ roundsEnded' # roundsEnded) =>
            phase' = (IF currentTeamIndex < Len(gameConfig.teams) - 1
                      THEN "teamDone" ELSE "gameOver")]_vars

\* C20 witness: a swap-places game of two teams is over after two rounds.
C20_Witness ==
    /\ SwapPlaces /\ phase = "gameOver"
    /\ Len(gameConfig.teams) = 2 /\ roundsStarted = 2 /\ roundsEnded = 2

\* C24 (as stated): in individual mode, when a round ends and the active team
\* still has un-played members, the next Playing phase is preceded by Ready:
\* Playing is never entered directly from RoundDone.
C24_NeverPlayingFromRoundDone ==
    [][phase = "roundDone" => phase' # "playing"]_vars

\* C24 (amended): in individual mode, when a round ends and the active team
\* still has un-played members, endRound advances to the next member and shows
\* RoundDone with the continue button wired to startRound; the continue signal
\* then starts that member's round, so Playing follows RoundDone directly.
\* Ready is entered only from Loading and from TeamDone.
C24_NextMemberFromRoundDone ==
    /\ [][(roundsEnded' # roundsEnded /\ ~SwapPlaces
             /\ currentPlayerIndex < Len(CurrentTeam.members) - 1) =>
            /\ phase' = "roundDone"
            /\ currentTeamIndex' = currentTeamIndex
            /\ currentPlayerIndex' = currentPlayerIndex + 1
            /\ onclick'.continue = "startRound"]_vars
    /\ [][(phase = "roundDone" /\ onclick.continue = "startRound" /\ phase' # phase) =>
            /\ phase' = "playing"
            /\ UNCHANGED <<currentTeamIndex, currentPlayerIndex>>]_vars
    /\ [][(phase' = "ready" /\ phase # "ready") => phase \in {"loading", "teamDone"}]_vars

\* C24 witness: the second member of a team is playing, one round after the
\* first member's round ended, and the go button was pressed once only.
C24_Witness ==
    /\ phase = "playing" /\ ~SwapPlaces
    /\ currentTeamIndex = 0 /\ currentPlayerIndex = 1
    /\ roundsEnded = 1 /\ roundsStarted = 2

\* C25: GameOver is terminal: once it is reached no signal changes the phase,
\* a team score or a player stat, and no countdown is scheduled.
C25_GameOverTerminal ==
    /\ [](phase = "gameOver" => activeTimers = {} /\ timerInterval = 0)
    /\ [][phase = "gameOver" => UNCHANGED <<phase, scores, playerStats>>]_vars

\* C25 witness: a game is over with a point on the board, and the handlers of
\* the last round are still attached to the hidden buttons.
C25_Witness ==
    /\ phase = "gameOver" /\ signals.correct >= 1
    /\ onclick.pass = "handlePass" /\ onclick.correct = "handleCorrect"

\* C27: a pass signal in Playing sets the active player's currentStreak to 0
\* and adds one to that player's passed count; every team score, every correct
\* count, every bestStreak and remainingTime are unchanged.
C27_PassFrame ==
    [][signals'.pass # signals.pass =>
         /\ phase = "playing" /\ phase' = "playing"
         /\ playerStats'[CurrentPlayerId].currentStreak = 0
         /\ playerStats'[CurrentPlayerId].passed = playerStats[CurrentPlayerId].passed + 1
         /\ scores' = scores
         /\ remainingTime' = remainingTime
         /\ DOMAIN playerStats' = DOMAIN playerStats
         /\ \A p \in DOMAIN playerStats :
              /\ playerStats'[p].correct = playerStats[p].correct
              /\ playerStats'[p].bestStreak = playerStats[p].bestStreak]_vars

\* C27 witness: the active player passed after a correct guess: the streak is
\* back to 0 while the point and the best streak are kept.
C27_Witness ==
    /\ phase = "playing" /\ signals.pass = 1 /\ signals.correct = 1
    /\ playerStats[CurrentPlayerId].passed = 1
    /\ playerStats[CurrentPlayerId].currentStreak = 0
    /\ scores[CurrentTeam.id] = 1

\* t holds the elements of s, each as often as s does
IsPermutation(s, t) ==
    /\ Len(s) = Len(t)
    /\ \A i \in 1..Len(s) :
         Cardinality({j \in 1..Len(s) : s[j] = s[i]}) =
           Cardinality({j \in 1..Len(t) : t[j] = s[i]})

TeamIds(teamList) == [i \in 1..Len(teamList) |-> teamList[i].id]

\* C29: after game start no Engine transition changes the order of the teams
\* or of the members of a team; the start-time shuffle only permutes them: no
\* team or member is added, lost or duplicated.
C29_TurnOrderStable ==
    /\ [][phase \notin {"setup", "navigating"} =>
            gameConfig'.teams = gameConfig.teams]_vars
    /\ [][(phase = "navigating" /\ phase' # phase) =>
            LET before == gameConfig.teams
                after == gameConfig'.teams
            IN /\ IsPermutation(TeamIds(before), TeamIds(after))
               /\ \A i \in 1..Len(before), j \in 1..Len(after) :
                    after[j].id = before[i].id =>
                      IsPermutation(before[i].members, after[j].members)]_vars

\* C29 witness: a round was played in an order that the shuffle changed: the
\* team entered second plays first, its member entered second starts.
C29_Witness ==
    /\ phase = "roundDone" /\ roundsEnded = 1
    /\ Len(gameConfig.teams) = 2
    /\ gameConfig.teams[1].id = "t2"
    /\ gameConfig.teams[1].members = <<"Dave", "Carol">>

Max(a, b) == IF a >= b THEN a ELSE b

\* C26: for every player, bestStreak never decreases, round starts included
\* (they reset currentStreak only), and it is the largest value currentStreak
\* has reached so far: both start at 0 and every step leaves bestStreak at the
\* larger of its old value and the new currentStreak.
C26_BestStreakRunningMax ==
    [][\A p \in DOMAIN playerStats' :
         IF p \in DOMAIN playerStats
         THEN /\ playerStats'[p].bestStreak >= playerStats[p].bestStreak
              /\ playerStats'[p].bestStreak =
                   Max(playerStats[p].bestStreak, playerStats'[p].currentStreak)
         ELSE playerStats'[p].bestStreak = 0 /\ playerStats'[p].currentStreak = 0]_vars

\* C26 witness: a round has started on a record that holds a best streak from
\* an earlier round: currentStreak is back to 0 without a pass, bestStreak is kept.
C26_Witness ==
    /\ phase = "playing" /\ roundsStarted = 2
    /\ playerStats[CurrentPlayerId].bestStreak = 1
    /\ playerStats[CurrentPlayerId].currentStreak = 0
    /\ playerStats[CurrentPlayerId].passed = 0

\* C28: there is one Player Stat record per (team, member) pair, and a correct
\* or pass signal modifies only the record of the active pair.
C28_OneRecordPerMember ==
    /\ [](phase \notin {"setup", "navigating", "redirected"} =>
            Cardinality(DOMAIN playerStats) = SumMembers(gameConfig.teams))
    /\ [][signals' # signals =>
            \A p \in DOMAIN playerStats \ {CurrentPlayerId} :
               playerStats'[p] = playerStats[p]]_vars

Range(seq) == {seq[i] : i \in 1..Len(seq)}

\* C30: when the filtered pool holds more artists than the game needs, the
\* trim removes only least-popular artists: no removed artist is more popular
\* than a retained one, every retained artist comes from the pool, once, and
\* the trimmed pool never holds fewer artists than the needed count.
C30_TrimDropsLeastPopular ==
    Len(trimIn) > trimNeeded =>
      /\ Range(trimOut) \subseteq Range(trimIn)
      /\ Cardinality(Range(trimOut)) = Len(trimOut)
      /\ Len(trimOut) >= trimNeeded
      /\ \A r \in Range(trimIn) \ Range(trimOut), k \in Range(trimOut) :
           PopularityOrZero(r) <= PopularityOrZero(k)

\* C30 witness: a pool of seven artists for a needed count of two loses one
\* artist, the one without a popularity value, and keeps six.
C30_Witness ==
    /\ Len(trimIn) = 7 /\ trimNeeded = 2 /\ Len(trimOut) = 6
    /\ Range(trimIn) \ Range(trimOut) = {2}

\* The base64url alphabet of RFC 4648, section 5, by sextet value + 1
UrlAlphabet ==
    <<"A", "B", "C", "D", "E", "F", "G", "H", "I", "J", "K", "L", "M", "N", "O", "P",
       "Q", "R", "S", "T", "U", "V", "W", "X", "Y", "Z", "a", "b", "c", "d", "e", "f",
       "g", "h", "i", "j", "k", "l", "m", "n", "o", "p", "q", "r", "s", "t", "u", "v",
       "w", "x", "y", "z", "0", "1", "2", "3", "4", "5", "6", "7", "8", "9", "-", "_">>

\* The bits of a byte string, most significant first
BitsOf(bytes) ==
    [i \in 1..(8 * Len(bytes)) |->
       (bytes[((i - 1) \div 8) + 1] \div (2 ^ (7 - ((i - 1) % 8)))) % 2]

\* base64url without padding, bit by bit: character k encodes the bits
\* 6k-5..6k, missing bits counting as 0
Base64UrlOf(bytes) ==
    LET bits == BitsOf(bytes)
        Bit(i) == IF i <= Len(bits) THEN bits[i] ELSE 0
        Sextet(k) == 32 * Bit(6 * k - 5) + 16 * Bit(6 * k - 4) + 8 * Bit(6 * k - 3)
                     + 4 * Bit(6 * k - 2) + 2 * Bit(6 * k - 1) + Bit(6 * k)
    IN [k \in 1..((8 * Len(bytes) + 5) \div 6) |-> UrlAlphabet[Sextet(k) + 1]]

\* C22: the code challenge is base64url of the SHA-256 digest of the verifier:
\* it holds no '=' padding and no '+' or '/' ('+' becomes '-', '/' becomes '_').
C22_ChallengeIsBase64Url ==
    /\ codeChallenge = Base64UrlOf(digest)
    /\ \A i \in 1..Len(codeChallenge) : codeChallenge[i] \notin {"=", "+", "/"}
    /\ Len(codeChallenge) = (8 * Len(digest) + 5) \div 6
    /\ \A i \in 1..Len(codeChallenge) :
         /\ Btoa(digest)[i] = "+" => codeChallenge[i] = "-"
         /\ Btoa(digest)[i] = "/" => codeChallenge[i] = "_"

\* C22 witness: a digest ending in the bytes 251, 255, which btoa encodes as
\* "+/8=", has the challenge "-_8".
C22_Witness ==
    /\ digest = <<251, 255>>
    /\ Btoa(digest) = <<"+", "/", "8", "=">>
    /\ codeChallenge = <<"-", "_", "8">>

\* startGame found no team that is enabled and has two members
NoValidTeam ==
    \A i \in 1..Len(teams) : ~(teams[i].enabled /\ Len(teams[i].members) >= 2)

\* The game is played by placeholder teams
PlaceholderTeams ==
    /\ Len(gameConfig.teams) >= 1
    /\ \A i \in 1..Len(gameConfig.teams) :
         gameConfig.teams[i].id \in {"default-team", "default-player-1", "default-player-2"}

\* The go prompt is shown with the button wired, and no error was shown
ReadyToPlay == phase = "ready" /\ onclick.go = "startRound" /\ ~insufficient

\* C21: when no configured team is enabled with two members or more, startGame
\* writes, in individual mode, exactly two teams of one member each with
\* distinct ids and names, and in swap-places mode exactly one team of two
\* members; once the go prompt is up, the Engine plays these teams through to
\* GameOver, every member's round included, and shows no error on the way.
C21_PlaceholderTeamsPlayed ==
    /\ [][(phase = "setup" /\ phase' = "navigating" /\ NoValidTeam) =>
            LET t == gameConfig'.teams
            IN IF gameConfig'.gameMode = "individual"
               THEN /\ Len(t) = 2
                    /\ Len(t[1].members) = 1 /\ Len(t[2].members) = 1
                    /\ t[1].id # t[2].id /\ t[1].name # t[2].name
               ELSE Len(t) = 1 /\ Len(t[1].members) = 2]_vars
    /\ [][(PlaceholderTeams /\ phase \in {"ready", "playing", "roundDone", "teamDone"}) =>
            /\ phase' \in {"ready", "playing", "roundDone", "teamDone", "gameOver"}
            /\ insufficient' = insufficient]_vars
    /\ (PlaceholderTeams /\ ReadyToPlay) ~>
         (phase = "gameOver" /\ ~insufficient
            /\ roundsEnded = (IF SwapPlaces THEN 1 ELSE 2))

\* C21 witness: no valid team was configured, and the individual game of the
\* two placeholder teams is over after a round of each.
C21_Witness ==
    /\ PlaceholderTeams /\ ~SwapPlaces
    /\ played = <<<<"default-player-2", "Player 2">>, <<"default-player-1", "Player 1">>>>
    /\ phase = "gameOver" /\ roundsEnded = 2 /\ ~insufficient

\* The (team, member) pairs in turn order: teams in order, members in order
RECURSIVE TurnOrder(_)
TurnOrder(teamList) ==
    IF teamList = <<>> THEN <<>>
    ELSE [j \in 1..Len(Head(teamList).members) |->
            <<Head(teamList).id, Head(teamList).members[j]>>] \o TurnOrder(Tail(teamList))

IsPrefix(s, t) == Len(s) <= Len(t) /\ SubSeq(t, 1, Len(s)) = s

\* C23: in individual mode, with timer ticks and go, continue and next-team
\* signals delivered, every (team, member) pair plays exactly one round, teams
\* in their start-time order and members in their order within the team, and
\* the game reaches GameOver; the rounds played number the members of all teams.
C23_EveryMemberPlaysOnce ==
    /\ [](~SwapPlaces => IsPrefix(played, TurnOrder(gameConfig.teams)))
    /\ []((~SwapPlaces /\ phase = "gameOver") =>
            /\ played = TurnOrder(gameConfig.teams)
            /\ roundsStarted = SumMembers(gameConfig.teams)
            /\ roundsEnded = SumMembers(gameConfig.teams))
    /\ (~SwapPlaces /\ phase = "ready" /\ onclick.go = "startRound") ~> (phase = "gameOver")

\* C23 witness: an individual game of two teams of two is over after the four
\* rounds of its four members.
C23_Witness ==
    /\ ~SwapPlaces /\ phase = "gameOver"
    /\ Len(gameConfig.teams) = 2 /\ Len(played) = 4
    /\ played = TurnOrder(gameConfig.teams)

\* C34: the Engine never enters Playing while the artist pool is empty, in
\* particular not after the artist fetch failed or returned no artists: the go
\* button is then never wired.
C34_NeverPlaysEmptyPool ==
    /\ phase = "playing" => Len(artists) > 0
    /\ (phase = "ready" /\ Len(artists) = 0) => onclick.go = "none"

\* C34 witness: the page is loaded, no artist is in the pool, and the ready
\* prompt is up with a go button that has no handler.
C34_Witness ==
    /\ phase = "ready" /\ Len(artists) = 0
    /\ onclick.go = "none" /\ Cardinality(DOMAIN playerStats) >= 1

\* C35: for a pool of at least 2 artists, the first artist displayed in a round
\* is never the artist that was on display when the previous round ended, also
\* when the round-end increment moves the index past the last pool entry and
\* the pool is reshuffled. Between the end of a round and the next start the
\* pool and the index are untouched, so the artist on display at the end is
\* the entry before the incremented index.
C35_NoRepeatAcrossRounds ==
    [][(phase # "playing" /\ phase' = "playing" /\ roundsEnded >= 1
          /\ Len(artists) >= 2) =>
         artists'[currentArtistIndex' + 1] # artists[currentArtistIndex]]_vars

\* C36: in Playing with a non-empty pool, 0 <= currentArtistIndex < pool size
\* after every handler, also in the round that follows a round-end increment
\* and across reshuffles.
C36_ArtistIndexInRange ==
    (phase = "playing" /\ Len(artists) > 0) =>
       (0 <= currentArtistIndex /\ currentArtistIndex < Len(artists))

\* C36 witness: the second round plays the first entry of a reshuffled pool:
\* the first round's correct guess and its end moved the index to the pool size.
C36_Witness ==
    /\ phase = "playing" /\ roundsStarted = 2
    /\ signals.correct = 1 /\ signals.pass = 0
    /\ Len(artists) = 2 /\ currentArtistIndex = 0

\* The correct counts of the Player Stat records of team id, summed
TeamCorrect(id) ==
    LET pids == {p \in DOMAIN playerStats : p[1] = id}
    IN SumOver([p \in pids |-> playerStats[p].correct], pids)

\* C37: in every reachable state and for every team, the team's score equals
\* the sum of the correct counts of that team's Player Stat records, in both
\* game modes.
C37_ScoreIsSumOfCorrect ==
    \A id \in DOMAIN scores : scores[id] = TeamCorrect(id)

\* C37 witness: a swap-places team has two points, both counted on one of its
\* two records.
C37_Witness ==
    /\ SwapPlaces /\ phase = "playing"
    /\ \E id \in DOMAIN scores :
         /\ scores[id] = 2
         /\ Cardinality({p \in DOMAIN playerStats : p[1] = id}) = 2

\* C38: the minimum-needed artist count written by game setup is the
\* per-player duration times the number of members of all teams of the written
\* configuration, and it is the number of countdown seconds of a whole game
\* in either mode: no game counts more seconds, and a game that is over has
\* counted exactly that many.
C38_MinNeededIsGameSeconds ==
    /\ phase # "setup" =>
         gameConfig.minArtistsNeeded =
            gameConfig.playerDuration * SumMembers(gameConfig.teams)
    /\ secondsRun <= gameConfig.minArtistsNeeded
    /\ phase = "gameOver" => secondsRun = gameConfig.minArtistsNeeded

\* C38 witness: a swap-places game of one team of two members with a
\* per-player duration of 2 is over after its 4 seconds.
C38_Witness ==
    /\ phase = "gameOver" /\ SwapPlaces
    /\ Len(gameConfig.teams) = 1 /\ gameConfig.playerDuration = 2
    /\ gameConfig.minArtistsNeeded = 4 /\ secondsRun = 4

\* A step that puts an artist on display: a round starts, or a signal moves on
ArtistShownStep ==
    \/ roundsStarted' # roundsStarted
    \/ signals' # signals

\* C32: the time recorded for a correct guess is the time since the artist on
\* display was first shown, not the time since the round started: the
\* reference instant is set to the current time by every correct, every pass
\* and every round start, no other step moves it, and a correct guess records
\* the current time minus the reference instant.
C32_GuessTimedFromArtistShown ==
    [][/\ ArtistShownStep => currentArtistStartTime' = dateNow
       /\ ~ArtistShownStep => currentArtistStartTime' = currentArtistStartTime
       /\ signals'.correct # signals.correct =>
             guessTime' = dateNow - currentArtistStartTime]_vars

\* C32 witness: a round started at 0, a pass at 1 and a correct guess at 2:
\* the guess took 1 second, and 2 seconds have passed since the round started.
C32_Witness ==
    /\ phase = "playing" /\ signals.pass = 1 /\ signals.correct = 1
    /\ roundStartTime = 0 /\ dateNow = 2 /\ guessTime = 1
    /\ currentArtistStartTime = 2

\* C31: after the pool is filtered with a popularity floor F > 0 every artist
\* in the pool has popularity >= F, an artist with no popularity value
\* counting as popularity 0; with F = 0 the filter removes no artist.
C31_PopularityFloor ==
    /\ filterFloor > 0 =>
         \A i \in 1..Len(filterOut) :
            (IF ArtistPopularity(filterOut[i]) = -1 THEN 0
             ELSE ArtistPopularity(filterOut[i])) >= filterFloor
    /\ filterFloor = 0 => filterOut = filterIn

\* C31 witness: with floor 50 the filter of artists 1 (90), 2 (no value),
\* 3 (50) and 4 (20) keeps 1 and 3.
C31_Witness ==
    /\ filterFloor = 50
    /\ filterIn = <<1, 2, 3, 4>>
    /\ filterOut = <<1, 3>>

\* C39: in every reachable state of one Session Manager instance, an in-memory
\* refresh token that is present equals the durable refresh token: after
\* login, after a refresh with or without rotation, after logout, and after a
\* logout interleaved with a refresh in flight.
C39_MemoryTokenIsDurableToken ==
    refreshToken # 0 => refreshToken = lsRefresh

\* C39 witness: a refresh in flight when logout ran was answered with a
\* rotated token, which is then both in memory and in localStorage.
C39_Witness ==
    \E c \in Callers :
       /\ req[c].kind = "refresh" /\ req[c].stale /\ req[c].stage = "handled"
       /\ req[c].newRT # 0
       /\ refreshToken = req[c].newRT /\ lsRefresh = req[c].newRT

\* C33: whenever a call of ensureAuthenticated returns without error, for any
\* interleaving of the concurrent calls, of logout and of the provider's
\* answers, an in-memory access token exists and its expiry is more than the
\* five-minute margin away (the provider's lifetimes are longer than the margin).
C33_SuccessLeavesUsableToken ==
    [][\A c \in Callers :
          (pc[c] # "done" /\ pc'[c] = "done") =>
             /\ accessToken' # "none"
             /\ tokenExpiry' - RefreshMarginMin > now']_vars

\* C33 witness: a call returned successfully from a refresh that was in flight
\* when logout ran, one minute after the page was loaded, while the other
\* call's refresh is still awaited.
C33_Witness ==
    \E c, d \in Callers :
       /\ pc[c] = "done" /\ req[c].kind = "refresh" /\ req[c].stale
       /\ pc[d] = "refreshWait"
       /\ now = 1 /\ accessToken = "user" /\ tokenExpiry = 7

====
